---- MODULE Spec2Model ----
(***************************************************************************)
(* Model of src/TailEase.js: the createProject pipeline (prompt, scaffold, *)
(* two installs, vite.config.js patch, two CSS writes, completion) and the *)
(* CLI wrapper that closes the readline interface and exits.               *)
(*                                                                         *)
(* Text is a sequence of lexemes: each lexeme is a literal piece of file   *)
(* text (one whitespace character, or a word such as "plugins:"), and the  *)
(* file content is their concatenation.  The lexemes are chosen so that no *)
(* search needle of the code straddles a lexeme boundary: a substring      *)
(* search of the code is a subsequence search on lexemes.                  *)
(* A user answer is a sequence of single characters.                       *)
(* A path is the sequence of its segments below the root ("/" is <<>>),    *)
(* each segment a text.                                                    *)
(***************************************************************************)
EXTENDS Integers, Sequences, FiniteSets, TLC

VARIABLES
  isGlobal,     \* line 9: require.main !== module
  cwd,          \* process.cwd(), never changed by the program
  pc,           \* where createProject (or the CLI wrapper) stands
  asked,        \* number of times the question was asked (line 74)
  answer,       \* the last answer as typed (line 42, ans)
  projectName,  \* line 72
  projectPath,  \* lines 79-81
  rl,           \* lines 22-25: how often the interface was opened and closed
  exitCode,     \* <<>> while running, <<n>> after process.exit(n)
  log,          \* what was printed
  procs,        \* the subprocesses started, in order
  fs,           \* the files on disk: path -> content
  fsops,        \* the file operations started and settled, in order
  config,       \* line 131: the text of vite.config.js being patched
  writes        \* lines 160-161: the state of each CSS write

vars == <<isGlobal, cwd, pc, asked, answer, projectName, projectPath, rl, exitCode,
          log, procs, fs, fsops, config, writes>>

\* ---------------------------------------------------------------- bounds
MaxAnswerLen == 3
MaxPrompts == 2
MaxFragments == 4
MaxApplications == 2

\* ------------------------------------------------------------- text model
Whitespace == {" ", "\t", "\n"}

NoValue == <<"undefined">>
NoPath == << <<>> >>

Flatten(ss) ==
  LET RECURSIVE F(_)
      F(i) == IF i > Len(ss) THEN <<>> ELSE ss[i] \o F(i + 1)
  IN F(1)

\* String.prototype.trim: drop leading and trailing whitespace.
TrimLeftOnly(s) ==
  LET first == IF \E i \in 1..Len(s) : s[i] \notin Whitespace
               THEN CHOOSE i \in 1..Len(s) :
                      /\ s[i] \notin Whitespace
                      /\ \A j \in 1..(i - 1) : s[j] \in Whitespace
               ELSE Len(s) + 1
  IN SubSeq(s, first, Len(s))

Trim(s) ==
  LET keep == {i \in 1..Len(s) : s[i] \notin Whitespace}
      Min(S) == CHOOSE x \in S : \A y \in S : x <= y
      Max(S) == CHOOSE x \in S : \A y \in S : x >= y
  IN IF keep = {} THEN <<>> ELSE SubSeq(s, Min(keep), Max(keep))

\* String.prototype.includes / indexOf on lexeme sequences (0: not found).
MatchesAt(s, i, sub) ==
  /\ i >= 1
  /\ i + Len(sub) - 1 <= Len(s)
  /\ SubSeq(s, i, i + Len(sub) - 1) = sub

IndexOf(s, sub) ==
  IF \E i \in 1..(Len(s) + 1) : MatchesAt(s, i, sub)
  THEN CHOOSE i \in 1..(Len(s) + 1) :
         /\ MatchesAt(s, i, sub)
         /\ \A j \in 1..(i - 1) : ~MatchesAt(s, j, sub)
  ELSE 0

Includes(s, sub) == IndexOf(s, sub) # 0

\* String.prototype.replace(string, string): the first occurrence only.
ReplaceFirst(s, sub, repl) ==
  LET i == IndexOf(s, sub)
  IN IF i = 0 THEN s
     ELSE SubSeq(s, 1, i - 1) \o repl \o SubSeq(s, i + Len(sub), Len(s))

\* /plugins:\s*\[/ : end position of the match that starts at i (0: none).
PluginsMatchEnd(s, i) ==
  IF i < 1 \/ i > Len(s) \/ s[i] # "plugins:" THEN 0
  ELSE LET ws == {k \in (i + 1)..Len(s) :
                    \A j \in (i + 1)..k : s[j] \in Whitespace}
           lastws == i + Cardinality(ws)
       IN IF lastws + 1 <= Len(s) /\ s[lastws + 1] = "[" THEN lastws + 1 ELSE 0

PluginsIndex(s) ==
  IF \E i \in 1..Len(s) : PluginsMatchEnd(s, i) # 0
  THEN CHOOSE i \in 1..Len(s) :
         /\ PluginsMatchEnd(s, i) # 0
         /\ \A j \in 1..(i - 1) : PluginsMatchEnd(s, j) = 0
  ELSE 0

\* String.prototype.replace(regexp, string) without the g flag.
ReplacePlugins(s, repl) ==
  LET i == PluginsIndex(s)
  IN IF i = 0 THEN s
     ELSE SubSeq(s, 1, i - 1) \o repl \o SubSeq(s, PluginsMatchEnd(s, i) + 1, Len(s))

\* ------------------------------------------------- literals of the patch
ReactImport == <<"import react from '@vitejs/plugin-react'">>
TailwindImport == <<"import tailwindcss from '@tailwindcss/vite'">>
TailwindOnly == <<"\n">> \o TailwindImport
ReactThenTailwind == ReactImport \o <<"\n">> \o TailwindImport
TailwindCall == <<"tailwindcss()">>
PluginsReplacement ==
  <<"plugins:", " ", "[", "\n", " ", " ", " ", " ", "tailwindcss()", ",">>
CssImport == <<"@import \"tailwindcss\";", "\n">>

\* Lines 133-138.
InsertImportUnguarded(c) == ReplaceFirst(c, ReactImport, ReactThenTailwind)

InsertImport(c) ==
  IF ~Includes(c, TailwindImport)
  THEN ReplaceFirst(c, ReactImport, ReactThenTailwind)
  ELSE c

\* Lines 140-145.
InsertPluginUnguarded(c) == ReplacePlugins(c, PluginsReplacement)

InsertPlugin(c) ==
  IF ~Includes(c, TailwindCall)
  THEN ReplacePlugins(c, PluginsReplacement)
  ELSE c

\* Lines 133-145: the import first, then the plugins entry.
PatchConfig(c) == InsertPlugin(InsertImport(c))


\* ------------------------------------------------------------ path model
\* path.join: append the segments, ".." dropping the last one (the root
\* has no parent).
PathJoin(base, segs) ==
  LET RECURSIVE J(_, _)
      J(p, i) ==
        IF i > Len(segs) THEN p
        ELSE IF segs[i] = <<"..">>
             THEN J(IF p = <<>> THEN p ELSE SubSeq(p, 1, Len(p) - 1), i + 1)
             ELSE J(Append(p, segs[i]), i + 1)
  IN J(base, 1)

\* Line 89: the directory the scaffolding tool is run in.
ScaffoldCwd(global, dir) ==
  IF global THEN dir ELSE PathJoin(dir, << <<"..">> >>)

\* Lines 79-81.
ProjectPathOf(global, dir, name) ==
  IF global THEN PathJoin(dir, <<name>>) ELSE PathJoin(dir, << <<"..">>, name >>)

ViteConfigPath(pp) == PathJoin(pp, << <<"vite.config.js">> >>)
IndexCssPath(pp) == PathJoin(pp, << <<"src">>, <<"index.css">> >>)
AppCssPath(pp) == PathJoin(pp, << <<"src">>, <<"App.css">> >>)
CssFiles == {"index.css", "App.css"}
CssPath(pp, f) == IF f = "index.css" THEN IndexCssPath(pp) ELSE AppCssPath(pp)

IsPrefix(p, q) == Len(p) <= Len(q) /\ SubSeq(q, 1, Len(p)) = p
DirExists(disk, d) == \E f \in DOMAIN disk : IsPrefix(d, f) /\ f # d

\* The text of an absolute path, as printed.
PathText(p) ==
  IF p = <<>> THEN <<"/">>
  ELSE Flatten([i \in 1..Len(p) |-> <<"/">> \o p[i]])

\* ------------------------------------------------------- the environment
Chars == {" ", "a"}
Answers == UNION {[1..n -> Chars] : n \in 0..MaxAnswerLen}
Cwds == {<<>>, << <<"home">>, <<"work">> >>}
ExitCodes == {0, 1}

\* vite.config.js of the react template.
ViteTemplate ==
  <<"import { defineConfig } from 'vite'", "\n">> \o ReactImport \o
  <<"\n", "\n", "export default defineConfig({", "\n", " ", " ",
    "plugins:", " ", "[", "react()", "]", ",", "\n", "})", "\n">>

PriorCss == {<<>>, <<"body { margin: 0 }", "\n">>}

\* What the scaffolding tool leaves in the directory it creates.
ScaffoldFiles(dir, withConfig, css) ==
  LET cssFiles == (IndexCssPath(dir) :> css) @@ (AppCssPath(dir) :> css)
  IN IF withConfig THEN (ViteConfigPath(dir) :> ViteTemplate) @@ cssFiles
     ELSE cssFiles

\* ------------------------------------------------------------ log, events
L(m) == [msg |-> m, arg |-> <<>>]
LA(m, a) == [msg |-> m, arg |-> a]
Ev(o, p, d) == [op |-> o, path |-> p, data |-> d]
Proc(c, n, d) == [cmd |-> c, name |-> n, cwd |-> d]

EmptyDisk == [p \in {} |-> <<>>]

\* ------------------------------------------------------------------ Init
Init ==
  /\ isGlobal \in BOOLEAN
  /\ cwd \in Cwds
  /\ pc = "prompt"
  /\ asked = 0
  /\ answer = NoValue
  /\ projectName = NoValue
  /\ projectPath = NoPath
  /\ rl = [opens |-> 1, closes |-> 0]
  /\ exitCode = <<>>
  /\ log = <<L("Vite + React + Tailwind CSS v4 Setup")>>
  /\ procs = <<>>
  /\ fs = EmptyDisk
  /\ fsops = <<>>
  /\ config = NoValue
  /\ writes = [f \in CssFiles |-> "idle"]

\* ----------------------------------------------------- the CLI wrapper
\* Lines 189-193: createProject rejected.  When the file is required as a
\* module the wrapper does not run and the rejection goes to the caller.
CliCatchNoClose(l) ==
  IF ~isGlobal
  THEN /\ log' = Append(l, L("Setup failed"))
       /\ exitCode' = <<1>>
       /\ pc' = "exited"
       /\ UNCHANGED rl
  ELSE /\ log' = l
       /\ pc' = "thrown"
       /\ UNCHANGED <<rl, exitCode>>

CliCatch(l) ==
  IF ~isGlobal
  THEN /\ log' = Append(l, L("Setup failed"))
       /\ rl' = [rl EXCEPT !.closes = @ + 1]
       /\ exitCode' = <<1>>
       /\ pc' = "exited"
  ELSE /\ log' = l
       /\ pc' = "thrown"
       /\ UNCHANGED <<rl, exitCode>>

\* Lines 186-188: createProject resolved.
CliSuccess(l) ==
  IF ~isGlobal
  THEN /\ log' = l
       /\ rl' = [rl EXCEPT !.closes = @ + 1]
       /\ exitCode' = <<0>>
       /\ pc' = "exited"
  ELSE /\ log' = l
       /\ pc' = "returned"
       /\ UNCHANGED <<rl, exitCode>>

\* ------------------------------------------------------- createProject
\* Lines 72-81: one turn of the prompt loop, and the path once it ends.
Ask(ans) ==
  /\ pc = "prompt"
  /\ asked < MaxPrompts
  /\ asked' = asked + 1
  /\ answer' = ans
  /\ projectName' = Trim(ans)
  /\ IF Trim(ans) = <<>>
     THEN /\ log' = Append(log, L("Project name cannot be empty"))
          /\ UNCHANGED <<pc, projectPath>>
     ELSE /\ projectPath' = ProjectPathOf(isGlobal, cwd, Trim(ans))
          /\ pc' = "step1"
          /\ UNCHANGED log
  /\ UNCHANGED <<isGlobal, cwd, rl, exitCode, procs, fs, fsops, config, writes>>

\* Lines 84-96: execSync of the scaffolding tool.
Step1(ok, withConfig, css) ==
  /\ pc = "step1"
  /\ procs' = Append(procs, Proc("npm create vite@latest", projectName,
                                 ScaffoldCwd(isGlobal, cwd)))
  /\ IF ok
     THEN /\ fs' = ScaffoldFiles(PathJoin(ScaffoldCwd(isGlobal, cwd), <<projectName>>),
                                 withConfig, css) @@ fs
          /\ log' = log \o <<L("1/6"), LA("Project created at", PathText(projectPath))>>
          /\ pc' = "step2"
          /\ UNCHANGED <<rl, exitCode>>
     ELSE /\ CliCatch(log \o <<L("1/6"), L("Failed to create Vite project")>>)
          /\ UNCHANGED fs
  /\ UNCHANGED <<isGlobal, cwd, asked, answer, projectName, projectPath, fsops, config, writes>>

\* Lines 99-105 and 46-54: npm install is spawned in projectPath.
Step2Start ==
  /\ pc = "step2"
  /\ log' = Append(log, L("2/6"))
  /\ procs' = Append(procs, Proc("npm install", <<>>, projectPath))
  /\ pc' = "step2wait"
  /\ UNCHANGED <<isGlobal, cwd, asked, answer, projectName, projectPath, rl, exitCode,
                 fs, fsops, config, writes>>

\* Lines 56-64 and 106-110: the child closed with `code`.
Step2CloseSwallow(code) ==
  /\ pc = "step2wait"
  /\ code = 0 => DirExists(fs, projectPath)
  /\ log' = Append(log, IF code = 0 THEN L("Base dependencies installed")
                        ELSE L("Failed to install dependencies"))
  /\ pc' = "step3"
  /\ UNCHANGED <<rl, exitCode>>
  /\ UNCHANGED <<isGlobal, cwd, asked, answer, projectName, projectPath, procs,
                 fs, fsops, config, writes>>

Step2Close(code) ==
  /\ pc = "step2wait"
  /\ code = 0 => DirExists(fs, projectPath)
  /\ IF code = 0
     THEN /\ log' = Append(log, L("Base dependencies installed"))
          /\ pc' = "step3"
          /\ UNCHANGED <<rl, exitCode>>
     ELSE CliCatch(Append(log, L("Failed to install dependencies")))
  /\ UNCHANGED <<isGlobal, cwd, asked, answer, projectName, projectPath, procs,
                 fs, fsops, config, writes>>

\* Lines 113-119.
Step3Start ==
  /\ pc = "step3"
  /\ log' = Append(log, L("3/6"))
  /\ procs' = Append(procs, Proc("npm install tailwindcss @tailwindcss/vite",
                                 <<>>, projectPath))
  /\ pc' = "step3wait"
  /\ UNCHANGED <<isGlobal, cwd, asked, answer, projectName, projectPath, rl, exitCode,
                 fs, fsops, config, writes>>

\* Lines 56-64 and 120-124.
Step3Close(code) ==
  /\ pc = "step3wait"
  /\ code = 0 => DirExists(fs, projectPath)
  /\ IF code = 0
     THEN /\ log' = Append(log, L("Tailwind CSS installed"))
          /\ pc' = "step4"
          /\ UNCHANGED <<rl, exitCode>>
     ELSE CliCatch(Append(log, L("Failed to install Tailwind")))
  /\ UNCHANGED <<isGlobal, cwd, asked, answer, projectName, projectPath, procs,
                 fs, fsops, config, writes>>


\* Lines 127-131: fs.readFile of vite.config.js is started.
Step4Start ==
  /\ pc = "step4"
  /\ log' = Append(log, L("4/6"))
  /\ fsops' = Append(fsops, Ev("read", ViteConfigPath(projectPath), <<>>))
  /\ pc' = "step4read"
  /\ UNCHANGED <<isGlobal, cwd, asked, answer, projectName, projectPath, rl, exitCode,
                 procs, fs, config, writes>>

\* Lines 150-153: the catch of step 4.
Warn4(l) ==
  l \o <<L("Couldn't auto-configure Vite"),
         L("Manually add Tailwind to vite.config.js")>>

\* Lines 131-147: the read settled; on success the patched text is built
\* and fs.writeFile is started.
Step4ReadDone(ok) ==
  /\ pc = "step4read"
  /\ ok => ViteConfigPath(projectPath) \in DOMAIN fs
  /\ IF ok
     THEN /\ config' = PatchConfig(fs[ViteConfigPath(projectPath)])
          /\ fsops' = fsops \o
               <<Ev("readOk", ViteConfigPath(projectPath),
                    fs[ViteConfigPath(projectPath)]),
                 Ev("write", ViteConfigPath(projectPath),
                    PatchConfig(fs[ViteConfigPath(projectPath)]))>>
          /\ pc' = "step4write"
          /\ UNCHANGED log
     ELSE /\ fsops' = Append(fsops, Ev("readFail", ViteConfigPath(projectPath), <<>>))
          /\ log' = Warn4(log)
          /\ pc' = "step5"
          /\ UNCHANGED config
  /\ UNCHANGED <<isGlobal, cwd, asked, answer, projectName, projectPath, rl, exitCode,
                 procs, fs, writes>>

\* Lines 147-153: the write settled.
Step4WriteDoneAbort(ok) ==
  /\ pc = "step4write"
  /\ IF ok
     THEN /\ fs' = (ViteConfigPath(projectPath) :> config) @@ fs
          /\ fsops' = Append(fsops, Ev("writeOk", ViteConfigPath(projectPath), config))
          /\ log' = Append(log, L("Vite configured for Tailwind"))
          /\ pc' = "step5"
          /\ UNCHANGED <<rl, exitCode>>
     ELSE /\ fsops' = Append(fsops, Ev("writeFail", ViteConfigPath(projectPath), config))
          /\ CliCatch(log)
          /\ UNCHANGED fs
  /\ UNCHANGED <<isGlobal, cwd, asked, answer, projectName, projectPath,
                 procs, config, writes>>

Step4WriteDone(ok) ==
  /\ pc = "step4write"
  /\ IF ok
     THEN /\ fs' = (ViteConfigPath(projectPath) :> config) @@ fs
          /\ fsops' = Append(fsops, Ev("writeOk", ViteConfigPath(projectPath), config))
          /\ log' = Append(log, L("Vite configured for Tailwind"))
     ELSE /\ fsops' = Append(fsops, Ev("writeFail", ViteConfigPath(projectPath), config))
          /\ log' = Warn4(log)
          /\ UNCHANGED fs
  /\ pc' = "step5"
  /\ UNCHANGED <<isGlobal, cwd, asked, answer, projectName, projectPath, rl, exitCode,
                 procs, config, writes>>

\* Lines 156-162: both fs.writeFile calls are started, then Promise.all
\* is awaited.
Step5Start ==
  /\ pc = "step5"
  /\ log' = Append(log, L("5/6"))
  /\ fsops' = fsops \o <<Ev("write", IndexCssPath(projectPath), CssImport),
                         Ev("write", AppCssPath(projectPath), CssImport)>>
  /\ writes' = [f \in CssFiles |-> "inflight"]
  /\ pc' = "step5wait"
  /\ UNCHANGED <<isGlobal, cwd, asked, answer, projectName, projectPath, rl, exitCode,
                 procs, fs, config>>

\* Lines 160-161: one of the two writes settles.  A write outlives the
\* function that started it, but not the process.
CssWriteAppend(disk, path, data) ==
  (path :> ((IF path \in DOMAIN disk THEN disk[path] ELSE <<>>) \o data)) @@ disk

CssWriteFile(disk, path, data) == (path :> data) @@ disk

CssWriteDone(f, ok) ==
  /\ pc # "exited"
  /\ writes[f] = "inflight"
  /\ ok => DirExists(fs, PathJoin(projectPath, << <<"src">> >>))
  /\ IF ok
     THEN /\ fs' = CssWriteFile(fs, CssPath(projectPath, f), CssImport)
          /\ fsops' = Append(fsops, Ev("writeOk", CssPath(projectPath, f), CssImport))
          /\ writes' = [writes EXCEPT ![f] = "done"]
     ELSE /\ fsops' = Append(fsops, Ev("writeFail", CssPath(projectPath, f), CssImport))
          /\ writes' = [writes EXCEPT ![f] = "failed"]
          /\ UNCHANGED fs
  /\ UNCHANGED <<isGlobal, cwd, pc, asked, answer, projectName, projectPath, rl, exitCode,
                 log, procs, config>>

\* Line 159: Promise.all is settled: rejected as soon as one write has
\* failed, fulfilled once both have succeeded.
PromiseAllSettled(w) ==
  \/ \E f \in CssFiles : w[f] = "failed"
  \/ \A f \in CssFiles : w[f] = "done"

PromiseAllRejected(w) == \E f \in CssFiles : w[f] = "failed"

\* Lines 159-168: createProject resumes after the await of step 5.
Step5Resume ==
  /\ pc = "step5wait"
  /\ PromiseAllSettled(writes)
  /\ log' = IF PromiseAllRejected(writes)
            THEN log \o <<L("Couldn't configure CSS files"),
                          L("Manually add @import \"tailwindcss\" to CSS files")>>
            ELSE Append(log, L("CSS files configured"))
  /\ pc' = "step6"
  /\ UNCHANGED <<isGlobal, cwd, asked, answer, projectName, projectPath, rl, exitCode,
                 procs, fs, fsops, config, writes>>

\* Lines 171-172: step 6 starts its 500 ms timer.
Step6Start ==
  /\ pc = "step6"
  /\ log' = Append(log, L("6/6"))
  /\ pc' = "timer"
  /\ UNCHANGED <<isGlobal, cwd, asked, answer, projectName, projectPath, rl, exitCode,
                 procs, fs, fsops, config, writes>>

\* Lines 174-179 and 186-188: the timer fired; the instructions are
\* printed and createProject returns.
Finish ==
  /\ pc = "timer"
  /\ CliSuccess(log \o <<L("Setup complete!"), L("Next steps:"),
                         LA("cd", projectName), L("npm run dev")>>)
  /\ UNCHANGED <<isGlobal, cwd, asked, answer, projectName, projectPath,
                 procs, fs, fsops, config, writes>>

Next ==
  \/ \E ans \in Answers : Ask(ans)
  \/ \E ok \in BOOLEAN, withConfig \in BOOLEAN, css \in PriorCss :
       Step1(ok, withConfig, css)
  \/ Step2Start
  \/ \E code \in ExitCodes : Step2Close(code)
  \/ Step3Start
  \/ \E code \in ExitCodes : Step3Close(code)
  \/ Step4Start
  \/ \E ok \in BOOLEAN : Step4ReadDone(ok)
  \/ \E ok \in BOOLEAN : Step4WriteDone(ok)
  \/ Step5Start
  \/ \E f \in CssFiles, ok \in BOOLEAN : CssWriteDone(f, ok)
  \/ Step5Resume
  \/ Step6Start
  \/ Finish

Spec == Init /\ [][Next]_vars


\* ------------------------------------------------ the patch, run on its own
\* Lines 131-147 run to completion on a vite.config.js of any content, up to
\* MaxApplications times on the same file.  A content is made of whole lines.
FragReactLine == ReactImport \o <<"\n">>
FragTailwindLine == TailwindImport \o <<"\n">>
FragReactCommented == <<"/*", " ">> \o ReactImport \o <<" ", "*/", "\n">>
FragPluginsReact == <<"plugins:", " ", "[", "react()", "]", ",", "\n">>
FragPluginsTight == <<"plugins:", "[", "]", ",", "\n">>
FragTailwindCall == <<"tailwindcss()", ",", "\n">>
FragPluginsNoArray == <<"plugins:", " ", "myPlugins", ",", "\n">>

Fragments ==
  {FragReactLine, FragTailwindLine, FragReactCommented, FragPluginsReact,
   FragPluginsTight, FragTailwindCall, FragPluginsNoArray}

Contents ==
  {Flatten(fr) : fr \in UNION {[1..n -> Fragments] : n \in 0..MaxFragments}}

PatchDir == << <<"home">>, <<"a">> >>

InitPatch ==
  /\ isGlobal = TRUE
  /\ cwd = << <<"home">> >>
  /\ pc = "step4"
  /\ asked = 1
  /\ answer = <<"a">>
  /\ projectName = <<"a">>
  /\ projectPath = PatchDir
  /\ rl = [opens |-> 1, closes |-> 0]
  /\ exitCode = <<>>
  /\ log = <<>>
  /\ procs = <<>>
  /\ \E c \in Contents : fs = (ViteConfigPath(PatchDir) :> c)
  /\ fsops = <<>>
  /\ config = NoValue
  /\ writes = [f \in CssFiles |-> "idle"]

ReadsOk == SelectSeq(fsops, LAMBDA e : e.op = "readOk")
WritesOk == SelectSeq(fsops, LAMBDA e : e.op = "writeOk")

PatchBuildConfig ==
  /\ pc = "step4"
  /\ Len(WritesOk) < MaxApplications
  /\ config' = PatchConfig(fs[ViteConfigPath(projectPath)])
  /\ fs' = (ViteConfigPath(projectPath) :> config') @@ fs
  /\ fsops' = fsops \o
       <<Ev("read", ViteConfigPath(projectPath), <<>>),
         Ev("readOk", ViteConfigPath(projectPath), fs[ViteConfigPath(projectPath)]),
         Ev("write", ViteConfigPath(projectPath), config'),
         Ev("writeOk", ViteConfigPath(projectPath), config')>>
  /\ UNCHANGED <<isGlobal, cwd, pc, asked, answer, projectName, projectPath, rl,
                 exitCode, log, procs, writes>>

NextPatch == PatchBuildConfig

PatchSpec == InitPatch /\ [][NextPatch]_vars


\* ================================================================ claims
Logged(m) == \E i \in 1..Len(log) : log[i].msg = m
CountLogged(m) == Cardinality({i \in 1..Len(log) : log[i].msg = m})
StepsLogged == {k \in {"1/6", "2/6", "3/6", "4/6", "5/6", "6/6"} : Logged(k)}
CliRun == ~isGlobal
Ended == pc \in {"exited", "returned", "thrown"}

\* C1: when the scaffold, the dependency install or the CSS-framework install
\* fails, no later step is started (no later step header, no further
\* subprocess, no read or write of any file, no completion instructions), the
\* run is over, and the command-line run has exited with code 1.
C1_FatalFailureAborts ==
  LET aborted(msg, steps, nprocs) ==
        Logged(msg) =>
          /\ StepsLogged = steps
          /\ Len(procs) = nprocs
          /\ fsops = <<>>
          /\ ~Logged("Setup complete!")
          /\ pc \in {"exited", "thrown"}
          /\ CliRun => pc = "exited" /\ exitCode = <<1>>
  IN /\ aborted("Failed to create Vite project", {"1/6"}, 1)
     /\ aborted("Failed to install dependencies", {"1/6", "2/6"}, 2)
     /\ aborted("Failed to install Tailwind", {"1/6", "2/6", "3/6"}, 3)
     /\ exitCode = <<1>> =>
          \/ Logged("Failed to create Vite project")
          \/ Logged("Failed to install dependencies")
          \/ Logged("Failed to install Tailwind")

C1_Witness ==
  /\ Logged("Failed to install dependencies")
  /\ exitCode = <<1>>
  /\ DirExists(fs, projectPath)

\* C2: once the three fatal steps have succeeded, a failed config patch or a
\* failed CSS write never aborts the run: each failed step prints its warning
\* exactly once, the run is never rejected, some step can always be taken
\* until the run is over, and a run that is over has started steps 5 and 6,
\* printed the instructions and (from the command line) exited with code 0.
ConfigFailures ==
  Cardinality({i \in 1..Len(fsops) :
                 /\ fsops[i].op \in {"readFail", "writeFail"}
                 /\ fsops[i].path = ViteConfigPath(projectPath)})

CssFailed == \E f \in CssFiles : writes[f] = "failed"
PastStep5 == Logged("6/6") \/ pc = "step6"

C2_BestEffortStepsOnlyWarn ==
  Logged("4/6") =>
    /\ pc # "thrown"
    /\ exitCode # <<1>>
    /\ ConfigFailures <= 1
    /\ CountLogged("Manually add Tailwind to vite.config.js") =
         (IF pc \in {"step4read", "step4write"} THEN 0 ELSE ConfigFailures)
    /\ CountLogged("Manually add @import \"tailwindcss\" to CSS files") =
         (IF PastStep5 /\ CssFailed THEN 1 ELSE 0)
    /\ PastStep5 => (CssFailed <=> ~Logged("CSS files configured"))
    /\ ~Ended => ENABLED Next
    /\ Ended =>
         /\ StepsLogged = {"1/6", "2/6", "3/6", "4/6", "5/6", "6/6"}
         /\ Logged("Setup complete!")
         /\ CliRun => exitCode = <<0>>

C2_Witness ==
  /\ exitCode = <<0>>
  /\ ConfigFailures = 1
  /\ CssFailed
  /\ Logged("Manually add Tailwind to vite.config.js")
  /\ Logged("Manually add @import \"tailwindcss\" to CSS files")

\* C6: when step 5 has completed without failure, src/index.css and
\* src/App.css both hold exactly the import line and its newline, in whichever
\* order the two writes completed.
C6_CssFilesHoldImport ==
  Logged("CSS files configured") =>
    /\ IndexCssPath(projectPath) \in DOMAIN fs
    /\ AppCssPath(projectPath) \in DOMAIN fs
    /\ fs[IndexCssPath(projectPath)] = <<"@import \"tailwindcss\";", "\n">>
    /\ fs[AppCssPath(projectPath)] = <<"@import \"tailwindcss\";", "\n">>

\* App.css was written first, index.css last.
C6_Witness ==
  /\ Logged("CSS files configured")
  /\ fsops[Len(fsops)] = Ev("writeOk", IndexCssPath(projectPath), CssImport)
  /\ fsops[Len(fsops) - 1] = Ev("writeOk", AppCssPath(projectPath), CssImport)

\* C7: the readline interface is opened once; a command-line run closes it
\* exactly once, on the success path and on every failure path, before it
\* exits, and never closes it twice.
C7_HandleClosedOnce ==
  /\ rl.opens = 1
  /\ rl.closes <= 1
  /\ CliRun => (pc = "exited" <=> rl.closes = 1)
  /\ exitCode # <<>> <=> pc = "exited"
  /\ CliRun /\ Ended => pc = "exited"

C7_Witness ==
  /\ exitCode = <<1>>
  /\ rl.closes = 1
  /\ Logged("Failed to install Tailwind")

\* C8: whenever a subprocess or a file operation has been started, projectName
\* is non-empty and is the last answer without its leading and trailing
\* whitespace; every blank answer has only printed the error and led back to
\* the prompt.
Blank(s) == \A i \in 1..Len(s) : s[i] \in {" ", "\t", "\n"}

IsTrimOf(t, s) ==
  \E a \in 0..Len(s) :
    /\ a + Len(t) <= Len(s)
    /\ SubSeq(s, a + 1, a + Len(t)) = t
    /\ Blank(SubSeq(s, 1, a))
    /\ Blank(SubSeq(s, a + Len(t) + 1, Len(s)))
    /\ t # <<>> => ~Blank(<<t[1]>>) /\ ~Blank(<<t[Len(t)]>>)

C8_NameNonEmptyAndTrimmed ==
  /\ (procs # <<>> \/ fsops # <<>> \/ DOMAIN fs # {}) =>
       /\ projectName # <<>>
       /\ projectName # NoValue
       /\ IsTrimOf(projectName, answer)
       /\ procs[1].name = projectName
  /\ pc = "prompt" /\ asked > 0 =>
       /\ Blank(answer)
       /\ projectName = <<>>
  /\ pc = "prompt" =>
       /\ CountLogged("Project name cannot be empty") = asked
       /\ Len(log) = asked + 1
       /\ procs = <<>> /\ fsops = <<>> /\ DOMAIN fs = {}
  /\ pc # "prompt" =>
       /\ ~Blank(answer)
       /\ CountLogged("Project name cannot be empty") = asked - 1

C8_Witness ==
  /\ Len(procs) = 3
  /\ asked = 2
  /\ answer # projectName

\* C9 (as claimed): projectPath, once computed, is the current working
\* directory joined with projectName, also in the command-line run.
C9_ProjectPathIsCwdJoinName ==
  projectPath # NoPath => projectPath = Append(cwd, projectName)

\* C10 (as claimed): no CSS write is still in flight when step 6 begins, nor
\* at any later point up to and including the exit.
C10_NoWriteInFlightAfterStep5 ==
  pc \in {"step6", "timer", "returned", "exited"} =>
    \A f \in CssFiles : writes[f] # "inflight"


\* ------------------------------------------------- claims about the patch
Count(c, sub) == Cardinality({i \in 1..Len(c) : MatchesAt(c, i, sub)})
InsertAfter(c, pos, ins) == SubSeq(c, 1, pos) \o ins \o SubSeq(c, pos + 1, Len(c))
MentionsTailwind(c) ==
  \E i \in 1..Len(c) :
    c[i] \in {"import tailwindcss from '@tailwindcss/vite'", "tailwindcss()"}

\* C3: a second application of the patch writes back what the first one
\* wrote, with no further tailwindcss import line and no further
\* tailwindcss() entry.
C3_PatchIdempotent ==
  \A k \in 2..Len(WritesOk) :
    /\ WritesOk[k].data = WritesOk[1].data
    /\ ReadsOk[k].data = WritesOk[k - 1].data
    /\ Count(WritesOk[k].data, <<"import tailwindcss from '@tailwindcss/vite'">>)
         = Count(WritesOk[1].data, <<"import tailwindcss from '@tailwindcss/vite'">>)
    /\ Count(WritesOk[k].data, <<"tailwindcss()">>)
         = Count(WritesOk[1].data, <<"tailwindcss()">>)

\* The first application made both insertions, the second one none.
C3_Witness ==
  /\ Len(WritesOk) = 2
  /\ ~MentionsTailwind(ReadsOk[1].data)
  /\ Count(WritesOk[2].data, <<"import tailwindcss from '@tailwindcss/vite'">>) = 1
  /\ Count(WritesOk[2].data, <<"tailwindcss()">>) = 1

\* The text expected of a patch of c whose react import is at lexeme i and
\* whose plugins: [react()] starts at lexeme j: the import on a new line right
\* after the react import, the entry right after the bracket, nothing else
\* changed.
ImportInsertion == <<"\n", "import tailwindcss from '@tailwindcss/vite'">>
EntryInsertion == <<"\n", " ", " ", " ", " ", "tailwindcss()", ",">>
PluginsReactText == <<"plugins:", " ", "[", "react()", "]">>

\* Lexeme i of c is the react import, alone on its line.
ReactLineAt(c, i) ==
  /\ c[i] = "import react from '@vitejs/plugin-react'"
  /\ i = 1 \/ c[i - 1] = "\n"
  /\ i = Len(c) \/ c[i + 1] = "\n"

ExpectedPatch(c, i, j) ==
  IF i < j
  THEN InsertAfter(InsertAfter(c, j + 2, EntryInsertion), i, ImportInsertion)
  ELSE InsertAfter(InsertAfter(c, i, ImportInsertion), j + 2, EntryInsertion)

PatchedAsClaimed(c, w) ==
  \E i \in 1..Len(c), j \in 1..Len(c) :
    /\ ReactLineAt(c, i)
    /\ MatchesAt(c, j, PluginsReactText)
    /\ w = ExpectedPatch(c, i, j)

\* plugins: then any whitespace then [, from lexeme h on.
ArrayOpensAt(c, h) ==
  /\ c[h] = "plugins:"
  /\ \E e \in (h + 1)..Len(c) :
       /\ c[e] = "["
       /\ \A m \in (h + 1)..(e - 1) : c[m] \in {" ", "\t", "\n"}

C4_Applies(c) ==
  /\ \E i \in 1..Len(c) : ReactLineAt(c, i)
  /\ Includes(c, PluginsReactText)
  /\ ~MentionsTailwind(c)

\* C4 (as claimed): every content with the react import line and the text
\* plugins: [react()] that does not mention tailwindcss is patched into the
\* same content with the import line right after the react import and the
\* entry first in that plugins array.
C4_PatchCorrectAnyContent ==
  \A k \in 1..Len(WritesOk) :
    C4_Applies(ReadsOk[k].data) => PatchedAsClaimed(ReadsOk[k].data, WritesOk[k].data)

\* C4 (amended): the same, for the contents in which the first occurrence of
\* the react import text is that line and the first text of the form
\* plugins:, any whitespace, [ is the one of plugins: [react()].
C4_PatchCorrectFirstArray ==
  \A k \in 1..Len(WritesOk) :
    (/\ C4_Applies(ReadsOk[k].data)
     /\ \E i \in 1..Len(ReadsOk[k].data) :
          /\ ReactLineAt(ReadsOk[k].data, i)
          /\ \A h \in 1..(i - 1) :
               ReadsOk[k].data[h] # "import react from '@vitejs/plugin-react'"
     /\ \E j \in 1..Len(ReadsOk[k].data) :
          /\ MatchesAt(ReadsOk[k].data, j, PluginsReactText)
          /\ \A h \in 1..(j - 1) : ~ArrayOpensAt(ReadsOk[k].data, h))
    => PatchedAsClaimed(ReadsOk[k].data, WritesOk[k].data)

\* plugins: [react()] comes before the import line; a second array and a
\* commented-out react import follow.
C4_Witness ==
  /\ Len(WritesOk) = 1
  /\ C4_Applies(ReadsOk[1].data)
  /\ ReadsOk[1].data =
       FragPluginsReact \o FragReactLine \o FragPluginsTight \o FragReactCommented
  /\ WritesOk[1].data # ReadsOk[1].data

====
